---- MODULE Spec2Model ----
(***************************************************************************)
(* Model of integration_Spark_UI_Open_AI.py: the recursive json_compaction *)
(* of SparkEnvironment, the three SparkEnvironment variants' fetch methods *)
(* and the collection pipeline of main().                                  *)
(*                                                                         *)
(* Python values are dynamically typed.  A JSON-like value is modelled as  *)
(* a tagged record ("document"), one tag per Python type, so that Python's *)
(* == (used by `in`) and isinstance can be modelled as the interpreter     *)
(* computes them:                                                          *)
(*    None        [t |-> "none"]                                           *)
(*    int n       [t |-> "int",   i |-> n]                                 *)
(*    float n.0   [t |-> "float", f |-> n]                                 *)
(*    str s       [t |-> "str",   s |-> s]                                 *)
(*    bool b      [t |-> "bool",  b |-> b]                                 *)
(*    list        [t |-> "list",  items |-> <<...>>]                       *)
(*    dict        [t |-> "dict",  keys |-> <<...>>, vals |-> <<...>>]      *)
(* A dict keeps its keys in insertion order, vals[i] belonging to keys[i]. *)
(***************************************************************************)
EXTENDS Integers, Sequences, FiniteSets, TLC

VARIABLES
    \* ---- json_compaction applied to an arbitrary document (SpecCompact)
    cpc,        \* "idle" (not in use), "input", "once", "twice"
    doc,        \* the input document
    out1,       \* json_compaction(doc)
    out2,       \* json_compaction(json_compaction(doc))
    \* ---- main() (Spec)
    pc,         \* the statement of main() that runs next; "done"; "crashed"
    crash,      \* the uncaught exception that ended main(), else NoCrash
    variant,    \* the SparkEnvironment subclass the factory returned
    self_application_id,    \* spark_env.application_id
    requested,  \* the job ids main() is asked to collect
    all_job_details_of_application,
    specific_job_details,
    all_job_ids,
    all_jobs_stage_details,     \* Python list, as a sequence of documents
    all_stage_and_attempt_ids,  \* Python list, as a sequence of documents
    all_task_details,           \* Python list, as a sequence of documents
    return_json,
    formatted_data,
    raw_file,           \* raw_responses/response.json
    compacted_file,     \* compacted_responses/compacted_response_test.json
    advice_file,        \* open_ai_response/open_ai_response.txt: entries appended
    \* ---- history of the calls main() made (read by the properties only)
    taskCalls,      \* the (stage_id, stage_attempt_id) passed to get_task_details
    lastStageCall,  \* the last get_stage_details call: inputs, requests, outcome
    lastIdCall      \* the last job-listing / job-lookup call and its outcome

compactVars == <<cpc, doc, out1, out2>>
mainVars == <<pc, crash, variant, self_application_id, requested, all_job_details_of_application,
              specific_job_details, all_job_ids, all_jobs_stage_details,
              all_stage_and_attempt_ids, all_task_details, return_json,
              formatted_data, raw_file, compacted_file, advice_file,
              taskCalls, lastStageCall, lastIdCall>>
vars == <<compactVars, mainVars>>

(***************************************************************************)
(* Documents                                                               *)
(***************************************************************************)
None == [t |-> "none"]
PyInt(n) == [t |-> "int", i |-> n]
PyFloat(n) == [t |-> "float", f |-> n]
PyStr(x) == [t |-> "str", s |-> x]
PyBool(x) == [t |-> "bool", b |-> x]
PyList(xs) == [t |-> "list", items |-> xs]
PyDict(ks, vs) == [t |-> "dict", keys |-> ks, vals |-> vs]

\* A value no statement has assigned yet (a Python name not yet bound).
Unset == [t |-> "unset"]

\* isinstance(x, int/float) with bool a subclass of int: the value Python's
\* == compares numbers by (False == 0 == 0.0, True == 1).
IsNumber(x) == x.t \in {"int", "float", "bool"}
NumberValue(x) ==
    IF x.t = "int" THEN x.i
    ELSE IF x.t = "float" THEN x.f
    ELSE IF x.b THEN 1 ELSE 0

\* Python's x == 0 and x == 0.0 (the same test: 0 == 0.0).
EqualsZero(x) == IsNumber(x) /\ NumberValue(x) = 0
EqualsEmptyStr(x) == x.t = "str" /\ x.s = ""
EqualsEmptyList(x) == x.t = "list" /\ x.items = <<>>
EqualsEmptyDict(x) == x.t = "dict" /\ x.keys = <<>>
IsNone(x) == x.t = "none"

\* v in [0, 0.0, "", [], {}, None]: `in` tests each element with is / ==.
InDictSentinels(v) ==
    \/ EqualsZero(v)
    \/ EqualsEmptyStr(v) \/ EqualsEmptyList(v) \/ EqualsEmptyDict(v) \/ IsNone(v)

\* item in [0.0, {}, [], None]
InListSentinels(item) ==
    EqualsZero(item) \/ EqualsEmptyDict(item) \/ EqualsEmptyList(item) \/ IsNone(item)

\* The indices n >= i of vals whose value passes the dict comprehension's
\* filter, in iteration (insertion) order.
RECURSIVE KeptFrom(_, _)
KeptFrom(vals, i) ==
    IF i > Len(vals) THEN <<>>
    ELSE (IF ~InDictSentinels(vals[i]) THEN <<i>> ELSE <<>>) \o KeptFrom(vals, i + 1)

\* SparkEnvironment.json_compaction
RECURSIVE json_compaction(_)
json_compaction(json_data) ==
    IF json_data.t = "dict" THEN
        \* the filter `if v not in [...]` reads the raw value v
        LET kept == KeptFrom(json_data.vals, 1)
        IN  PyDict([n \in 1..Len(kept) |-> json_data.keys[kept[n]]],
                 [n \in 1..Len(kept) |-> json_compaction(json_data.vals[kept[n]])])
    ELSE IF json_data.t = "list" THEN
        IF \E n \in 1..Len(json_data.items) : ~InListSentinels(json_data.items[n])
        THEN PyList([n \in 1..Len(json_data.items) |->
                      json_compaction(json_data.items[n])])
        ELSE PyList(<<>>)
    ELSE json_data

SeqsUpTo(S, n) == UNION {[1..m -> S] : m \in 0..n}

(***************************************************************************)
(* Python helpers                                                          *)
(***************************************************************************)
\* bool(x), as `if not x` evaluates it
Truthy(x) ==
    IF IsNumber(x) THEN NumberValue(x) # 0
    ELSE IF x.t = "str" THEN x.s # ""
    ELSE IF x.t = "list" THEN x.items # <<>>
    ELSE IF x.t = "dict" THEN x.keys # <<>>
    ELSE FALSE

\* d.get(k, default) of a dict d
DictGet(d, k, default) ==
    IF \E n \in 1..Len(d.keys) : d.keys[n] = k
    THEN d.vals[CHOOSE n \in 1..Len(d.keys) : d.keys[n] = k]
    ELSE default

\* The outcome of a call: a returned value or an uncaught exception.
Return(x) == [raised |-> FALSE, error |-> "", value |-> x]
Raise(e) == [raised |-> TRUE, error |-> e, value |-> Unset]

NoCrash == [line |-> 0, error |-> ""]
Crash(l, e) == [line |-> l, error |-> e]

(***************************************************************************)
(* The monitoring REST API, as the code sees it: a status code and a body  *)
(* that response.json() parses or fails to parse.  URLs are not modelled.  *)
(***************************************************************************)
HTTP_OK == 200

Ok(body) == [status_code |-> HTTP_OK, parsable |-> TRUE, body |-> body]
\* A failed request: an error document, or a plain-text body.
ErrorBody == PyDict(<<"message">>, <<PyStr("not found")>>)
Failures ==
    {[status_code |-> 404, parsable |-> TRUE, body |-> ErrorBody],
     [status_code |-> 404, parsable |-> FALSE, body |-> None]}

jobId == 22
application_id == "local-1728540004669"

\* The job ids of the model; main() asks for a list of them.
JobIds == {jobId, 7}
JobIdLists ==
    {ids \in SeqsUpTo(JobIds, Cardinality(JobIds)) :
        /\ ids # <<>>
        /\ \A m, n \in 1..Len(ids) : m # n => ids[m] # ids[n]}

MaxStages == 2

\* The i-th stage id of job j: stage ids are distinct across jobs.
StageIdOf(j, i) == 10 * j + i

\* GET /applications/{app}/jobs
JobListing == PyList(<<PyDict(<<"jobId">>, <<PyInt(jobId)>>)>>)
JobListResponses == {Ok(PyList(<<>>)), Ok(JobListing)} \cup Failures

\* GET /applications/{app}/jobs/{job_id}: a JobDescriptor with k stage ids
JobDescriptor(j, k) ==
    PyDict(<<"jobId", "stageIds">>,
           <<PyInt(j), PyList([i \in 1..k |-> PyInt(StageIdOf(j, i))])>>)
JobResponses(j) == {Ok(JobDescriptor(j, k)) : k \in 0..MaxStages} \cup Failures

\* GET /applications/{app}/stages/{stage_id}: the list of the stage's
\* attempts, the latest first: attempt 0 alone, or a retry and attempt 0.
StageDescriptor(s, a) == PyDict(<<"stageId", "attemptId">>, <<PyInt(s), PyInt(a)>>)
StageBodies(s) ==
    {PyList(<<StageDescriptor(s, 0)>>),
     PyList(<<StageDescriptor(s, 1), StageDescriptor(s, 0)>>)}
StageResponses(s) == {Ok(b) : b \in StageBodies(s)} \cup Failures

\* GET /applications/{app}/stages/{stage_id}/{attempt}/taskSummary
TaskSummary(s, a) ==
    PyDict(<<"quantiles", "executorRunTime", "memoryBytesSpilled">>,
           <<PyList(<<PyFloat(1)>>), PyList(<<PyFloat(10 * s + a)>>),
             PyList(<<PyFloat(0)>>)>>)
TaskResponses(s, a) == {Ok(TaskSummary(s, a))} \cup Failures

(***************************************************************************)
(* The SparkEnvironment variants                                           *)
(***************************************************************************)
Variants == {"Local", "Databricks", "NonDatabricks"}

\* GET {url}/applications, and Databricks' GET /api/2.0/jobs/list
AppListResponses(v) ==
    (IF v = "Databricks"
     THEN {Ok(PyDict(<<>>, <<>>)),
           Ok(PyDict(<<"jobs">>, <<PyList(<<PyDict(<<"job_id">>, <<PyInt(101)>>)>>)>>))}
     ELSE {Ok(PyList(<<>>)),
           Ok(PyList(<<PyDict(<<"id">>, <<PyStr(application_id)>>)>>))})
        \cup Failures

\* get_application_id: the outcome, and self.application_id after the call
AppIdCall(outcome, attr) ==
    [raised |-> outcome.raised, error |-> outcome.error,
     value |-> outcome.value, attr |-> attr]

\* get_application_id.  Databricks goes through _databricks_api_get, which
\* raises on a status other than 200; the other two keep the cached
\* self.application_id when the status is not 200.
get_application_id(v, cached, resp) ==
    IF v = "Databricks" THEN
        IF resp.status_code # HTTP_OK
        THEN AppIdCall(Raise("Exception: Failed to fetch data from Databricks"), cached)
        ELSE LET id == IF Truthy(resp.body)
                       THEN DictGet(DictGet(resp.body, "jobs", None).items[1], "job_id", None)
                       ELSE None
             IN  AppIdCall(Return(id), id)
    ELSE
        IF resp.status_code # HTTP_OK
        THEN AppIdCall(Return(cached), cached)
        ELSE LET id == IF Truthy(resp.body)
                       THEN DictGet(resp.body.items[1], "id", None)
                       ELSE None
             IN  AppIdCall(Return(id), id)

\* get_all_job_details_of_application.  NonDatabricksSparkEnvironment reads
\* self.local_spark_ui_url, which its __init__ never sets.
get_all_job_details_of_application(v, resp) ==
    IF v = "NonDatabricks" THEN Raise("AttributeError")
    ELSE IF resp.status_code = HTTP_OK THEN Return(resp.body)
    ELSE Return(None)

\* get_specific_job_details: the same in the three variants
get_specific_job_details(v, resp) ==
    IF resp.status_code = HTTP_OK THEN Return(resp.body) ELSE Return(None)

\* What a get_stage_details call did: its outcome and the stage ids it
\* requested, in order.
StageCall(outcome, fetched) ==
    [raised |-> outcome.raised, error |-> outcome.error,
     value |-> outcome.value, fetched |-> fetched]

StageDetails(job_id, stages) ==
    PyDict(<<"job_id", "stages">>, <<PyInt(job_id), PyList(stages)>>)

\* LocalSparkEnvironment.get_stage_details, after the job lookup
LocalStages(job_id, stage_ids, resps) ==
    StageCall(
        Return(StageDetails(job_id,
            [n \in 1..Len(stage_ids) |->
                IF resps[n].status_code = HTTP_OK THEN resps[n].body ELSE None])),
        stage_ids)

\* NonDatabricksSparkEnvironment.get_stage_details, after the job lookup:
\* requests.get(stage_url).json() whatever the status
NonDatabricksStages(job_id, stage_ids, resps) ==
    LET bad == {n \in 1..Len(stage_ids) : ~resps[n].parsable}
    IN  IF bad = {}
        THEN StageCall(
                Return(StageDetails(job_id,
                    [n \in 1..Len(stage_ids) |-> resps[n].body])),
                stage_ids)
        ELSE LET first == CHOOSE n \in bad : \A m \in bad : n <= m
             IN  StageCall(Raise("JSONDecodeError"), SubSeq(stage_ids, 1, first))

\* DatabricksSparkEnvironment.get_stage_details, after the job lookup:
\* _databricks_api_get raises on a status other than 200 and otherwise
\* returns the parsed body, on which .json() is then called.
DatabricksStages(job_id, stage_ids, resps) ==
    IF stage_ids = <<>>
    THEN StageCall(Return(StageDetails(job_id, <<>>)), <<>>)
    ELSE IF resps[1].status_code = HTTP_OK
    THEN StageCall(Raise("AttributeError"), SubSeq(stage_ids, 1, 1))
    ELSE StageCall(Raise("Exception: Failed to fetch data from Databricks"),
                   SubSeq(stage_ids, 1, 1))

\* get_stage_details(job_id): job_resp answers the job lookup, resps[n]
\* the request for the n-th stage id.
get_stage_details(v, job_id, job_resp, resps) ==
    LET job_details == get_specific_job_details(v, job_resp).value
    IN  IF ~Truthy(job_details) THEN StageCall(Return(None), <<>>)
        ELSE LET stage_ids == DictGet(job_details, "stageIds", PyList(<<>>)).items
             IN  IF v = "Local" THEN LocalStages(job_id, stage_ids, resps)
                 ELSE IF v = "Databricks" THEN DatabricksStages(job_id, stage_ids, resps)
                 ELSE NonDatabricksStages(job_id, stage_ids, resps)

\* get_task_details(stage_id=..., stage_attempt_id=...).  Only
\* LocalSparkEnvironment.get_task_details has a stage_attempt_id parameter.
get_task_details(v, resp) ==
    IF v # "Local" THEN Raise("TypeError")
    ELSE IF resp.status_code = HTTP_OK THEN Return(resp.body)
    ELSE Return(None)

\* What the history keeps of a get_stage_details call.
StageCallRecord(job_id, job_resp, ids, resps, c) ==
    [job_id |-> job_id,
     found |-> job_resp.status_code = HTTP_OK,
     stage_ids |-> ids,
     statuses |-> [n \in 1..Len(ids) |-> resps[n].status_code],
     fetched |-> c.fetched,
     raised |-> c.raised,
     value |-> c.value]

\* The answers the backend may give to the stage requests of a job lookup.
StageResponseVectors(job_resp) ==
    LET ids == IF job_resp.status_code = HTTP_OK
               THEN DictGet(job_resp.body, "stageIds", PyList(<<>>)).items
               ELSE <<>>
    IN  {f \in [1..Len(ids) -> UNION {StageResponses(ids[n].i) : n \in 1..Len(ids)}] :
            \A n \in 1..Len(ids) : f[n] \in StageResponses(ids[n].i)}

(***************************************************************************)
(* main()                                                                  *)
(***************************************************************************)
CompactIdle ==
    /\ cpc = "idle"
    /\ doc = Unset
    /\ out1 = Unset
    /\ out2 = Unset

NoStageCall ==
    [job_id |-> 0, found |-> FALSE, stage_ids |-> <<>>, statuses |-> <<>>,
     fetched |-> <<>>, raised |-> FALSE, value |-> Unset]
NoIdCall == [op |-> "", status_code |-> 0, attempts |-> 0, raised |-> FALSE,
             value |-> Unset]
\* A call that raised before it sent its request has status_code 0.
NoRequest == [status_code |-> 0]
IdCall(op, resp, outcome) ==
    [op |-> op, status_code |-> resp.status_code,
     attempts |-> IF resp = NoRequest THEN 0 ELSE 1,
     raised |-> outcome.raised, value |-> outcome.value]

NotWritten == [written |-> FALSE, content |-> Unset]
\* f.write(json.dumps(d)): the file holds the JSON text of d, represented by
\* d itself (json.dumps is injective on documents).
Written(d) == [written |-> TRUE, content |-> d]

Init ==
    /\ CompactIdle
    /\ pc = "list_jobs"
    /\ crash = NoCrash
    /\ variant \in Variants
    /\ self_application_id = None
    /\ requested \in JobIdLists
    /\ all_job_details_of_application = Unset
    /\ specific_job_details = Unset
    /\ all_job_ids = <<>>
    /\ all_jobs_stage_details = <<>>
    /\ all_stage_and_attempt_ids = <<>>
    /\ all_task_details = <<>>
    /\ return_json = Unset
    /\ formatted_data = Unset
    /\ raw_file = NotWritten
    /\ compacted_file = NotWritten
    /\ advice_file = <<>>
    /\ taskCalls = <<>>
    /\ lastStageCall = NoStageCall
    /\ lastIdCall = NoIdCall

\* (mutant) results gathered newest first
CollectNewestFirst(acc, x) == <<x>> \o acc

\* A list comprehension appends each result in iteration order.
Collect(acc, x) == Append(acc, x)

\* all_job_details_of_application = spark_env.get_all_job_details_of_application()
\* all_job_ids = [jobs.get("jobId", None) for jobs in ...]; [all_job_ids[0]]
ListJobs ==
    /\ pc = "list_jobs"
    /\ \E resp \in JobListResponses :
        LET r == get_all_job_details_of_application(variant, resp)
        IN  /\ lastIdCall' = IdCall("get_all_job_details_of_application",
                                    IF variant = "NonDatabricks" THEN NoRequest ELSE resp, r)
            /\ all_job_details_of_application' = r.value
            /\ IF r.raised THEN
                   /\ pc' = "crashed"
                   /\ crash' = Crash(332, r.error)
               ELSE IF r.value.t # "list" THEN
                   \* iterating None
                   /\ pc' = "crashed"
                   /\ crash' = Crash(335, "TypeError")
               ELSE IF r.value.items = <<>> THEN
                   /\ pc' = "crashed"
                   /\ crash' = Crash(336, "IndexError")
               ELSE
                   /\ pc' = "get_job"
                   /\ UNCHANGED crash
    /\ UNCHANGED <<compactVars, variant, self_application_id, requested, specific_job_details, all_job_ids,
                   all_jobs_stage_details, all_stage_and_attempt_ids,
                   all_task_details, return_json, formatted_data, raw_file,
                   compacted_file, advice_file, taskCalls, lastStageCall>>

\* specific_job_details = spark_env.get_specific_job_details(job_id = jobId)
\* all_job_ids = [jobId]   (here: the requested list)
GetJob ==
    /\ pc = "get_job"
    /\ \E resp \in JobResponses(jobId) :
        LET r == get_specific_job_details(variant, resp)
        IN  /\ lastIdCall' = IdCall("get_specific_job_details", resp, r)
            /\ specific_job_details' = r.value
    /\ all_job_ids' = requested
    /\ pc' = "stages"
    /\ UNCHANGED <<compactVars, crash, variant, self_application_id, requested,
                   all_job_details_of_application, all_jobs_stage_details,
                   all_stage_and_attempt_ids, all_task_details, return_json,
                   formatted_data, raw_file, compacted_file, advice_file,
                   taskCalls, lastStageCall>>

\* One iteration of
\* all_jobs_stage_details = [spark_env.get_stage_details(job_id = jobId)
\*                           for jobId in all_job_ids]
FetchStageDetails ==
    /\ pc = "stages"
    /\ Len(all_jobs_stage_details) < Len(all_job_ids)
    /\ LET job_id == all_job_ids[Len(all_jobs_stage_details) + 1]
       IN  \E job_resp \in JobResponses(job_id) :
           LET ids == IF job_resp.status_code = HTTP_OK
                      THEN DictGet(job_resp.body, "stageIds", PyList(<<>>)).items
                      ELSE <<>>
           IN  \E resps \in StageResponseVectors(job_resp) :
               LET c == get_stage_details(variant, job_id, job_resp, resps)
               IN  /\ lastIdCall' = IdCall("get_specific_job_details", job_resp,
                                           get_specific_job_details(variant, job_resp))
                   /\ lastStageCall' = StageCallRecord(job_id, job_resp, ids, resps, c)
                   /\ IF c.raised THEN
                          /\ pc' = "crashed"
                          /\ crash' = Crash(343, c.error)
                          /\ UNCHANGED all_jobs_stage_details
                      ELSE
                          /\ all_jobs_stage_details' = Collect(all_jobs_stage_details, c.value)
                          /\ pc' = IF Len(all_jobs_stage_details) + 1 = Len(all_job_ids)
                                   THEN "extract" ELSE "stages"
                          /\ UNCHANGED crash
    /\ UNCHANGED <<compactVars, variant, self_application_id, requested, all_job_details_of_application,
                   specific_job_details, all_job_ids, all_stage_and_attempt_ids,
                   all_task_details, return_json, formatted_data, raw_file,
                   compacted_file, advice_file, taskCalls>>

\* stage[0] for one element of single_stage_details.get("stages"), then
\* .get(...) on it: the exception these raise, "" when they raise none.
StageError(stage) ==
    IF stage.t = "none" THEN "TypeError"
    ELSE IF stage.t = "dict" THEN "KeyError"
    ELSE IF stage.t # "list" THEN "TypeError"
    ELSE IF stage.items = <<>> THEN "IndexError"
    ELSE IF stage.items[1].t # "dict" THEN "AttributeError"
    ELSE ""

\* (mutant) the attempt id read with the stage id's key
MappedIdsCopiedKey(stage) ==
    PyDict(<<"stageId", "attemptId">>,
           <<DictGet(stage.items[1], "stageId", None),
             DictGet(stage.items[1], "stageId", None)>>)

\* {"stageId" : stage[0].get("stageId", None),
\*  "attemptId" : stage[0].get("attemptId", None)}
MappedIds(stage) ==
    PyDict(<<"stageId", "attemptId">>,
           <<DictGet(stage.items[1], "stageId", None),
             DictGet(stage.items[1], "attemptId", None)>>)

\* single_stage_details.get("stages") with single_stage_details None
NoneHasNoGet == "AttributeError: 'NoneType' object has no attribute 'get'"

\* The two loops over all_jobs_stage_details that build all_stage_ids and
\* all_stage_and_attempt_ids; both read stage[0] of every stage, so the first
\* raises wherever the second would.
RECURSIVE ExtractIds(_, _, _)
ExtractIds(details, i, acc) ==
    IF i > Len(details) THEN Return(acc)
    ELSE IF details[i].t # "dict" THEN Raise(NoneHasNoGet)
    ELSE LET stages == DictGet(details[i], "stages", None).items
             bad == {n \in 1..Len(stages) : StageError(stages[n]) # ""}
         IN  IF bad # {}
             THEN Raise(StageError(stages[CHOOSE n \in bad : \A m \in bad : n <= m]))
             ELSE ExtractIds(details, i + 1,
                        acc \o [n \in 1..Len(stages) |-> MappedIds(stages[n])])

Extract ==
    /\ pc = "extract"
    /\ LET r == ExtractIds(all_jobs_stage_details, 1, <<>>)
       IN  IF r.raised THEN
               /\ pc' = "crashed"
               \* None.get at line 348, stage[0] and stage[0].get at line 349
               /\ crash' = Crash(IF r.error = NoneHasNoGet THEN 348 ELSE 349, r.error)
               /\ UNCHANGED all_stage_and_attempt_ids
           ELSE
               /\ all_stage_and_attempt_ids' = r.value
               /\ pc' = IF r.value = <<>> THEN "assemble" ELSE "tasks"
               /\ UNCHANGED crash
    /\ UNCHANGED <<compactVars, variant, self_application_id, requested, all_job_details_of_application,
                   specific_job_details, all_job_ids, all_jobs_stage_details,
                   all_task_details, return_json, formatted_data, raw_file,
                   compacted_file, advice_file, taskCalls, lastStageCall, lastIdCall>>

\* One iteration of
\* all_task_details = [spark_env.get_task_details(stage_id = mappedIds.get("stageId"),
\*     stage_attempt_id = mappedIds.get("attemptId")) for mappedIds in ...]
FetchTaskDetails ==
    /\ pc = "tasks"
    /\ Len(all_task_details) < Len(all_stage_and_attempt_ids)
    /\ LET mappedIds == all_stage_and_attempt_ids[Len(all_task_details) + 1]
           stage_id == DictGet(mappedIds, "stageId", None)
           stage_attempt_id == DictGet(mappedIds, "attemptId", None)
       IN  /\ taskCalls' = Append(taskCalls, <<stage_id, stage_attempt_id>>)
           /\ \E resp \in TaskResponses(stage_id.i, stage_attempt_id.i) :
               LET r == get_task_details(variant, resp)
               IN  IF r.raised THEN
                       /\ pc' = "crashed"
                       /\ crash' = Crash(358, r.error)
                       /\ UNCHANGED all_task_details
                   ELSE
                       /\ all_task_details' = Collect(all_task_details, r.value)
                       /\ pc' = IF Len(all_task_details) + 1 = Len(all_stage_and_attempt_ids)
                                THEN "assemble" ELSE "tasks"
                       /\ UNCHANGED crash
    /\ UNCHANGED <<compactVars, variant, self_application_id, requested, all_job_details_of_application,
                   specific_job_details, all_job_ids, all_jobs_stage_details,
                   all_stage_and_attempt_ids, return_json, formatted_data, raw_file,
                   compacted_file, advice_file, lastStageCall, lastIdCall>>

\* return_json = {...}; then response.json is written
Assemble ==
    /\ pc = "assemble"
    /\ return_json' =
         PyDict(<<"applicationId", "specificJobDetails", "stageDetails", "task_details">>,
                <<PyStr(application_id), specific_job_details,
                  PyList(all_jobs_stage_details), PyList(all_task_details)>>)
    /\ raw_file' = Written(return_json')
    /\ pc' = "compact"
    /\ UNCHANGED <<compactVars, crash, variant, self_application_id, requested, all_job_details_of_application,
                   specific_job_details, all_job_ids, all_jobs_stage_details,
                   all_stage_and_attempt_ids, all_task_details, formatted_data,
                   compacted_file, advice_file, taskCalls, lastStageCall, lastIdCall>>

\* formatted_data = spark_env.json_compaction(return_json); then
\* compacted_response_test.json is written with json.dumps(return_json)
CompactReport ==
    /\ pc = "compact"
    /\ formatted_data' = json_compaction(return_json)
    /\ compacted_file' = Written(return_json)
    /\ pc' = "advice"
    /\ UNCHANGED <<compactVars, crash, variant, self_application_id, requested, all_job_details_of_application,
                   specific_job_details, all_job_ids, all_jobs_stage_details,
                   all_stage_and_attempt_ids, all_task_details, return_json,
                   raw_file, advice_file, taskCalls, lastStageCall, lastIdCall>>

\* open_ai_response.txt is opened for appending and
\* ask_openai(question, formatted_data) is evaluated inside f.write(...): the
\* request succeeds and its text is appended, or it raises.
AskOpenAI ==
    /\ pc = "advice"
    /\ \/ /\ advice_file' = Append(advice_file, [advice_for |-> formatted_data])
          /\ pc' = "done"
          /\ UNCHANGED crash
       \/ /\ pc' = "crashed"
          /\ crash' = Crash(395, "OpenAIError")
          /\ UNCHANGED advice_file
    /\ UNCHANGED <<compactVars, variant, self_application_id, requested, all_job_details_of_application,
                   specific_job_details, all_job_ids, all_jobs_stage_details,
                   all_stage_and_attempt_ids, all_task_details, return_json,
                   formatted_data, raw_file, compacted_file, taskCalls,
                   lastStageCall, lastIdCall>>

Next ==
    \/ ListJobs
    \/ GetJob
    \/ FetchStageDetails
    \/ Extract
    \/ FetchTaskDetails
    \/ Assemble
    \/ CompactReport
    \/ AskOpenAI

Spec == Init /\ [][Next]_vars

(***************************************************************************)
(* The fetch methods called directly on a SparkEnvironment (SpecCalls)     *)
(***************************************************************************)
CallUnchanged ==
    UNCHANGED <<compactVars, pc, crash, variant, requested,
                all_job_details_of_application, specific_job_details, all_job_ids,
                all_jobs_stage_details, all_stage_and_attempt_ids, all_task_details,
                return_json, formatted_data, raw_file, compacted_file, advice_file,
                taskCalls>>

CallGetApplicationId ==
    /\ pc = "call"
    /\ \E resp \in AppListResponses(variant) :
        LET r == get_application_id(variant, self_application_id, resp)
        IN  /\ lastIdCall' = IdCall("get_application_id", resp, r)
            /\ self_application_id' = r.attr
    /\ UNCHANGED lastStageCall
    /\ CallUnchanged

CallGetAllJobDetails ==
    /\ pc = "call"
    /\ \E resp \in JobListResponses :
        LET r == get_all_job_details_of_application(variant, resp)
        IN  lastIdCall' = IdCall("get_all_job_details_of_application",
                                 IF variant = "NonDatabricks" THEN NoRequest ELSE resp, r)
    /\ UNCHANGED <<lastStageCall, self_application_id>>
    /\ CallUnchanged

CallGetSpecificJobDetails ==
    /\ pc = "call"
    /\ \E job_id \in JobIds : \E resp \in JobResponses(job_id) :
        lastIdCall' = IdCall("get_specific_job_details", resp,
                             get_specific_job_details(variant, resp))
    /\ UNCHANGED <<lastStageCall, self_application_id>>
    /\ CallUnchanged

CallGetStageDetails ==
    /\ pc = "call"
    /\ \E job_id \in JobIds : \E job_resp \in JobResponses(job_id) :
       \E resps \in StageResponseVectors(job_resp) :
        LET ids == IF job_resp.status_code = HTTP_OK
                   THEN DictGet(job_resp.body, "stageIds", PyList(<<>>)).items
                   ELSE <<>>
            c == get_stage_details(variant, job_id, job_resp, resps)
        IN  /\ lastIdCall' = IdCall("get_specific_job_details", job_resp,
                                    get_specific_job_details(variant, job_resp))
            /\ lastStageCall' = StageCallRecord(job_id, job_resp, ids, resps, c)
    /\ UNCHANGED self_application_id
    /\ CallUnchanged

InitCalls ==
    /\ CompactIdle
    /\ pc = "call"
    /\ crash = NoCrash
    /\ variant \in Variants
    /\ self_application_id = None
    /\ requested = <<>>
    /\ all_job_details_of_application = Unset
    /\ specific_job_details = Unset
    /\ all_job_ids = <<>>
    /\ all_jobs_stage_details = <<>>
    /\ all_stage_and_attempt_ids = <<>>
    /\ all_task_details = <<>>
    /\ return_json = Unset
    /\ formatted_data = Unset
    /\ raw_file = NotWritten
    /\ compacted_file = NotWritten
    /\ advice_file = <<>>
    /\ taskCalls = <<>>
    /\ lastStageCall = NoStageCall
    /\ lastIdCall = NoIdCall

NextCalls ==
    \/ CallGetApplicationId
    \/ CallGetAllJobDetails
    \/ CallGetSpecificJobDetails
    \/ CallGetStageDetails

SpecCalls == InitCalls /\ [][NextCalls]_vars

MainIdle ==
    /\ pc = "idle"
    /\ crash = NoCrash
    /\ variant = "Local"
    /\ self_application_id = None
    /\ requested = <<>>
    /\ all_job_details_of_application = Unset
    /\ specific_job_details = Unset
    /\ all_job_ids = <<>>
    /\ all_jobs_stage_details = <<>>
    /\ all_stage_and_attempt_ids = <<>>
    /\ all_task_details = <<>>
    /\ return_json = Unset
    /\ formatted_data = Unset
    /\ raw_file = NotWritten
    /\ compacted_file = NotWritten
    /\ advice_file = <<>>
    /\ taskCalls = <<>>
    /\ lastStageCall = NoStageCall
    /\ lastIdCall = NoIdCall

(***************************************************************************)
(* Bounded documents for SpecCompact                                       *)
(***************************************************************************)
MaxDepth == 2
MaxLen == 2

Leaves == {None, PyInt(0), PyInt(5), PyFloat(0), PyStr(""), PyStr("x"), PyBool(FALSE)}
KeySeqs == {<<>>, <<"a">>, <<"b">>, <<"a", "b">>}

RECURSIVE DocsOfDepth(_)
DocsOfDepth(d) ==
    IF d = 0 THEN Leaves
    ELSE LET sub == DocsOfDepth(d - 1)
         IN  sub \cup {PyList(xs) : xs \in SeqsUpTo(sub, MaxLen)}
                 \cup UNION {{PyDict(ks, vs) : vs \in [1..Len(ks) -> sub]} : ks \in KeySeqs}

InitCompact ==
    /\ cpc = "input"
    /\ doc \in DocsOfDepth(MaxDepth)
    /\ out1 = Unset
    /\ out2 = Unset
    /\ MainIdle

\* formatted = json_compaction(D)
Compact ==
    /\ cpc = "input"
    /\ out1' = json_compaction(doc)
    /\ cpc' = "once"
    /\ UNCHANGED <<doc, out2, mainVars>>

\* json_compaction applied to its own output
Recompact ==
    /\ cpc = "once"
    /\ out2' = json_compaction(out1)
    /\ cpc' = "twice"
    /\ UNCHANGED <<doc, out1, mainVars>>

NextCompact == Compact \/ Recompact

SpecCompact == InitCompact /\ [][NextCompact]_vars

(***************************************************************************)
(* Properties of json_compaction (checked under SpecCompact)               *)
(***************************************************************************)
Compacted == cpc \in {"once", "twice"}

\* The empty sentinels as the specification lists them: the literal values
\* 0, 0.0, "", [], {} and None (the boolean False is not one of them).
EmptySentinels ==
    {PyInt(0), PyFloat(0), PyStr(""), PyList(<<>>), PyDict(<<>>, <<>>), None}
\* The raw sentinels of the sequence rule: a zero number, {}, [] and None.
SequenceSentinels == {PyInt(0), PyFloat(0), PyList(<<>>), PyDict(<<>>, <<>>), None}

Children(d) ==
    IF d.t = "dict" THEN {d.vals[n] : n \in 1..Len(d.vals)}
    ELSE IF d.t = "list" THEN {d.items[n] : n \in 1..Len(d.items)}
    ELSE {}

\* No mapping anywhere in d holds an empty sentinel as a value.
RECURSIVE NoMappingHoldsSentinel(_)
NoMappingHoldsSentinel(d) ==
    /\ d.t = "dict" => \A n \in 1..Len(d.vals) : d.vals[n] \notin EmptySentinels
    /\ \A c \in Children(d) : NoMappingHoldsSentinel(c)

\* d contains no empty sentinel at any depth.
RECURSIVE SentinelFree(_)
SentinelFree(d) ==
    /\ d \notin EmptySentinels
    /\ \A c \in Children(d) : SentinelFree(c)

\* C1: json_compaction is idempotent: compacting the compacted document
\* gives the compacted document again.
C1_Idempotent == cpc = "twice" => out2 = out1

\* C2: a mapping's compaction contains key k exactly when the compacted
\* value of k is not an empty sentinel, so no mapping of the output holds a
\* sentinel value (compact({"a": {"b": {}}}) == {}).
C2_MappingDropsCompactedSentinels ==
    (Compacted /\ doc.t = "dict") =>
        /\ \A n \in 1..Len(doc.keys) :
              (\E m \in 1..Len(out1.keys) : out1.keys[m] = doc.keys[n])
                  <=> json_compaction(doc.vals[n]) \notin EmptySentinels
        /\ NoMappingHoldsSentinel(out1)

\* C3: a sequence compacts to the empty sequence when every raw element is a
\* zero number, {}, [] or None; otherwise it keeps its length and its i-th
\* element is the compaction of the i-th element.
C3_SequenceRule ==
    (Compacted /\ doc.t = "list") =>
        IF \A n \in 1..Len(doc.items) : doc.items[n] \in SequenceSentinels
        THEN out1 = PyList(<<>>)
        ELSE /\ Len(out1.items) = Len(doc.items)
             /\ \A n \in 1..Len(doc.items) :
                    out1.items[n] = json_compaction(doc.items[n])

\* C4: json_compaction is the identity on documents that contain no empty
\* sentinel at any depth; False is not a sentinel, so {"a": False} is kept.
C4_IdentityOnSentinelFree ==
    (Compacted /\ SentinelFree(doc)) => out1 = doc

(***************************************************************************)
(* Properties of main() (checked under Spec)                               *)
(***************************************************************************)
StagesOf(details) == DictGet(details, "stages", None).items

\* C5: a job for which get_stage_details returned None does not abort the
\* run: main() is never ended by the absent stage details of a job.
C5_AbsentJobDoesNotAbort ==
    (\E i \in 1..Len(all_jobs_stage_details) : all_jobs_stage_details[i] = None) =>
        ~(pc = "crashed" /\ crash.line = 348)

\* C6: in every variant a failed stage-detail request does not abort
\* get_stage_details: every stage id of the job is requested and the result
\* has one entry per stage id, the failed ones marked.
C6_StageFailureDoesNotAbort ==
    (/\ lastStageCall.found
     /\ \E n \in 1..Len(lastStageCall.statuses) : lastStageCall.statuses[n] # HTTP_OK) =>
        /\ ~lastStageCall.raised
        /\ lastStageCall.fetched = lastStageCall.stage_ids
        /\ Len(StagesOf(lastStageCall.value)) = Len(lastStageCall.stage_ids)
        /\ \A n \in 1..Len(lastStageCall.statuses) :
              lastStageCall.statuses[n] # HTTP_OK =>
                  StagesOf(lastStageCall.value)[n].t # "list"

\* The StageDescriptors get_stage_details has returned so far in this run.
FetchedDescriptors ==
    UNION {UNION {{st.items[m] : m \in 1..Len(st.items)} :
                    st \in {x \in {StagesOf(all_jobs_stage_details[i])[n] :
                                     n \in 1..Len(StagesOf(all_jobs_stage_details[i]))} :
                              x.t = "list"}} :
             i \in {j \in 1..Len(all_jobs_stage_details) :
                      all_jobs_stage_details[j].t = "dict"}}

RECURSIVE TotalStages(_, _)
TotalStages(details, i) ==
    IF i > Len(details) THEN 0
    ELSE (IF details[i].t = "dict" THEN Len(StagesOf(details[i])) ELSE 0)
            + TotalStages(details, i + 1)

\* C7: every (stageId, attemptId) passed to get_task_details is the pair of
\* one StageDescriptor fetched earlier in the run; no task fetch precedes
\* the stage fetches, and a job with no stages causes no task fetch.
C7_TaskKeysFromFetchedDescriptors ==
    /\ \A n \in 1..Len(taskCalls) :
          \E d \in FetchedDescriptors :
              /\ d.t = "dict"
              /\ taskCalls[n] = <<DictGet(d, "stageId", None), DictGet(d, "attemptId", None)>>
    /\ taskCalls # <<>> => Len(all_jobs_stage_details) = Len(all_job_ids)
    /\ Len(taskCalls) <= TotalStages(all_jobs_stage_details, 1)
    /\ pc \in {"assemble", "compact", "advice", "done"} =>
          Len(taskCalls) = TotalStages(all_jobs_stage_details, 1)

C7_Witness ==
    /\ pc = "done"
    /\ Len(taskCalls) >= 2
    /\ \E n \in 1..Len(taskCalls) : taskCalls[n][2] = PyInt(1)
    /\ \E n \in 1..Len(taskCalls) : taskCalls[n][2] = PyInt(0)
    /\ \E i \in 1..Len(all_jobs_stage_details) :
          /\ all_jobs_stage_details[i].t = "dict"
          /\ StagesOf(all_jobs_stage_details[i]) = <<>>

\* C8: a job-listing or job-lookup call that gets a status other than 200
\* fails with an error after one attempt, and the job listing never
\* returns None.
C8_IdResolutionFailsLoudly ==
    /\ (lastIdCall.op # "" /\ lastIdCall.status_code # HTTP_OK) =>
          (lastIdCall.raised /\ lastIdCall.attempts = 1)
    /\ (lastIdCall.op = "get_all_job_details_of_application" /\ ~lastIdCall.raised) =>
          lastIdCall.value # None

\* C9: when the advice request is made, the raw report and the compacted
\* report have both been written out with their full contents.
C9_ReportsPersistedBeforeAdvice ==
    (pc \in {"advice", "done"} \/ (pc = "crashed" /\ crash.line = 395)) =>
        /\ raw_file = Written(return_json)
        /\ compacted_file = Written(formatted_data)

\* The keys of a report's stageDetails in discovery order: job order, then
\* stage order within each job, each key read from the stage's first
\* descriptor.
RECURSIVE KeysInOrder(_, _)
KeysInOrder(sd, i) ==
    IF i > Len(sd) THEN <<>>
    ELSE [n \in 1..Len(StagesOf(sd[i])) |->
            <<DictGet(StagesOf(sd[i])[n].items[1], "stageId", None),
              DictGet(StagesOf(sd[i])[n].items[1], "attemptId", None)>>]
         \o KeysInOrder(sd, i + 1)

ReportStageDetails == DictGet(return_json, "stageDetails", None).items
ReportTaskDetails == DictGet(return_json, "task_details", None).items

\* C10: the report keeps the request order: the i-th stageDetails entry is
\* that of the i-th requested job id, and the i-th task details entry is the
\* answer for the i-th key in discovery order.
C10_ReportPreservesRequestOrder ==
    return_json # Unset =>
        /\ Len(ReportStageDetails) = Len(requested)
        /\ \A i \in 1..Len(requested) :
              DictGet(ReportStageDetails[i], "job_id", None) = PyInt(requested[i])
        /\ taskCalls = KeysInOrder(ReportStageDetails, 1)
        /\ Len(ReportTaskDetails) = Len(taskCalls)
        /\ \A n \in 1..Len(taskCalls) :
              \/ ReportTaskDetails[n] = None
              \/ ReportTaskDetails[n] = TaskSummary(taskCalls[n][1].i, taskCalls[n][2].i)

C10_Witness ==
    /\ pc = "done"
    /\ Len(requested) = 2
    /\ \A i \in 1..Len(ReportStageDetails) : Len(StagesOf(ReportStageDetails[i])) >= 1
    /\ Len(ReportTaskDetails) >= 3
    /\ \A n \in 1..Len(ReportTaskDetails) : ReportTaskDetails[n] # None

====
